---- MODULE Spec2Model ----
(***************************************************************************)
(* State-machine model of ray.rllib.agents.agent (class Agent): config     *)
(* validation and merge, construction, train / _stop / _save / _restore,   *)
(* compute_action, and the asynchronous calls issued to remote evaluators. *)
(*                                                                         *)
(* Python values: a scalar is <<"s", text>>, a dict value is <<"d", f>>    *)
(* with f a function from key strings to values; a top-level config is a   *)
(* bare function from key strings to values.                               *)
(***************************************************************************)
EXTENDS Integers, Sequences, FiniteSets, TLC

VARIABLES
    cls,             \* the agent class: which hooks it overrides, its flags
    default_config,  \* the class attribute _default_config (a mapping)
    registry,        \* env names registered in the global registry
    phase,           \* "new" (no agent yet), "failed" (the constructor raised),
                     \* "ready" (constructed), "stopped"
    config,          \* self.config
    global_vars,     \* self.global_vars
    iteration,       \* self._iteration
    shape,           \* attributes built by the subclass _init
    le,              \* the local evaluator object
    opt,             \* the optimizer object
    inbox,           \* per remote handle: calls issued and not yet processed
    remote,          \* per remote handle: the remote evaluator's own state
    files,           \* checkpoint files on disk: path -> pickled mapping
    saved,           \* history: path -> states at the latest _save to it
    log,             \* calls issued by the latest operation, in order
    outcome          \* the latest operation: name, exception, return value

vars == <<cls, default_config, registry, phase, config, global_vars, iteration,
          shape, le, opt, inbox, remote, files, saved, log, outcome>>

----------------------------------------------------------------------------
(* Bounds *)

MaxRemote == 2
MaxIter == 2
MaxInbox == 1

Handles == 1..MaxRemote

----------------------------------------------------------------------------
(* Python values *)

S(x) == <<"s", x>>
D(f) == <<"d", f>>
Absent == <<"a", "">>
PyNone == S("None")
EmptyDict == [k \in {} |-> Absent]

IsDict(v) == v[1] = "d"
Has(d, k) == k \in DOMAIN d
Put(d, k, v) == [x \in DOMAIN d \cup {k} |-> IF x = k THEN v ELSE d[x]]
\* dict.update(other) / dict(d, **other): a shallow, top-level override
Update(d, other) ==
    [x \in DOMAIN d \cup DOMAIN other |-> IF x \in DOMAIN other THEN other[x] ELSE d[x]]
\* values that are falsy in Python conditions
Truthy(v) == IF IsDict(v) THEN DOMAIN v[2] # {} ELSE v[2] \notin {"None", "False", "", "0"}

----------------------------------------------------------------------------
(* Configuration *)

COMMON_CONFIG ==
    [ callbacks |-> D([on_sample_end |-> PyNone, on_train_result |-> PyNone]),
      model |-> D([fcnet_hiddens |-> S("256")]),
      optimizer |-> D(EmptyDict),
      gamma |-> S("0.99"),
      env |-> PyNone,
      observation_filter |-> S("NoFilter"),
      synchronize_filters |-> S("True") ]

with_common_config(extra_config) == Update(COMMON_CONFIG, extra_config)

_allow_unknown_subkeys_buggy == {"tf_session_args", "env_config", "optimizer", "multiagent"}
_allow_unknown_subkeys == {"tf_session_args", "env_config", "model", "optimizer", "multiagent"}

DeprecatedKeys == {"gpu", "gpu_fraction", "use_gpu_for_workers"}

_validate_config_buggy(cfg) ==
    IF Has(cfg, "gpu") \/ Has(cfg, "gpu_fraction") THEN "ValueError" ELSE "none"
_validate_config(cfg) ==
    IF Has(cfg, "gpu") THEN "ValueError"
    ELSE IF Has(cfg, "gpu_fraction") THEN "ValueError"
    ELSE IF Has(cfg, "use_gpu_for_workers") THEN "ValueError"
    ELSE "none"

\* deep_update(original, new_dict, new_keys_allowed, whitelist): the errors it
\* can raise (one per offending key; the first met in iteration order is raised)
RECURSIVE deep_update_errors(_, _, _, _)
deep_update_errors(original, new_dict, new_keys_allowed, whitelist) ==
    UNION { IF ~Has(original, k) /\ ~new_keys_allowed
                THEN {"UnknownConfig"}
            ELSE IF Has(original, k) /\ IsDict(original[k])
                THEN IF ~IsDict(new_dict[k])
                        THEN {"AttributeError"}
                     ELSE deep_update_errors(original[k][2], new_dict[k][2],
                              (k \in whitelist) \/ new_keys_allowed, {})
            ELSE {} : k \in DOMAIN new_dict }

\* deep_update's result when it raises nothing
RECURSIVE deep_update(_, _, _, _)
deep_update(original, new_dict, new_keys_allowed, whitelist) ==
    [k \in DOMAIN original \cup DOMAIN new_dict |->
        IF ~Has(new_dict, k) THEN original[k]
        ELSE IF Has(original, k) /\ IsDict(original[k]) /\ IsDict(new_dict[k])
            THEN D(deep_update(original[k][2], new_dict[k][2],
                       (k \in whitelist) \/ new_keys_allowed, {}))
        ELSE new_dict[k]]

----------------------------------------------------------------------------
(* Classes, inputs and objects *)

\* what the agent class declares: the three hooks and _allow_unknown_configs
\* and the algorithm-specific part of its default config
ExtraConfigs ==
    { [lr |-> S("0.01")],
      [lr |-> S("0.01"), model |-> D([fcnet_hiddens |-> S("64"), use_lstm |-> S("False")])] }
Classes ==
    [ has_init : BOOLEAN, has_agent_name : BOOLEAN, has_default_config : BOOLEAN,
      _allow_unknown_configs : BOOLEAN, extra : ExtraConfigs ]

\* the class default config as the class declares it
DeclaredDefault(c) ==
    IF c.has_default_config THEN with_common_config(c.extra) ELSE EmptyDict

\* the attributes a subclass _init builds: local_evaluator, remote_evaluators
\* (handles 1..n) and optimizer ("none", a PolicyOptimizer "policy", another
\* object with save/stop "plain_save", or one with neither "plain")
OptimizerKinds == {"none", "policy", "plain_save", "plain"}
\* (remote evaluators exist only where an attribute or a PolicyOptimizer holds them)
Shapes ==
    { sh \in [ local_evaluator : BOOLEAN, remote_evaluators : BOOLEAN,
               optimizer : OptimizerKinds, n : 0..MaxRemote ] :
         (sh.n > 0) => (sh.remote_evaluators \/ sh.optimizer = "policy") }
NoShape == [local_evaluator |-> FALSE, remote_evaluators |-> FALSE, optimizer |-> "none", n |-> 0]
BasicShape == [local_evaluator |-> TRUE, remote_evaluators |-> TRUE, optimizer |-> "policy", n |-> 1]

Ev(e, h, x) == [ev |-> e, h |-> h, x |-> x]
Out(op, exc, ret) == [op |-> op, exc |-> exc, ret |-> ret, arg |-> EmptyDict, val |-> EmptyDict]
OutCfg(op, exc, arg, val) == [op |-> op, exc |-> exc, ret |-> <<>>, arg |-> arg, val |-> val]

NewEvaluator == [timestep |-> -1, weights |-> 0, filter_count |-> 0]
NewOptimizer == [num_steps_sampled |-> 0, num_steps_trained |-> 0, stopped |-> 0]
NewRemote == [timestep |-> -1, weights |-> 0, filter_count |-> 0, alive |-> TRUE]

NoEnv == <<"none", "">>
EnvArgs == {NoEnv, <<"str", "CartPole-v0">>, <<"type", "MyEnv">>}

----------------------------------------------------------------------------
(* Construction *)

\* env or config.get("env")
EnvOrConfig(env, cfg) ==
    IF env # NoEnv THEN env
    ELSE IF Has(cfg, "env") /\ ~IsDict(cfg["env"]) /\ Truthy(cfg["env"])
        THEN <<"str", cfg["env"][2]>>
    ELSE NoEnv

_register_if_needed(env_object, reg) ==
    IF env_object[1] = "str"
        THEN [id |-> env_object[2], registry |-> reg, events |-> <<>>]
    ELSE IF env_object[1] = "type"
        THEN [id |-> env_object[2], registry |-> reg \cup {env_object[2]},
              events |-> <<Ev("register_env", 0, 0)>>]
    ELSE [id |-> "", registry |-> reg, events |-> <<>>]

\* _setup: config["env"] = env when an env id is set
SetupConfig(cfg, env_id) == IF env_id # "" THEN Put(cfg, "env", S(env_id)) ELSE cfg

\* _setup's merge without the copy: deep_update works on the class attribute
SetupMerge_nocopy(dflt, cfg, allow) ==
    [ merged |-> deep_update(dflt, cfg, allow, _allow_unknown_subkeys),
      dflt_after |-> deep_update(dflt, cfg, allow, _allow_unknown_subkeys) ]
\* _setup's merge: deep_update on a deep copy of the class default
SetupMerge(dflt, cfg, allow) ==
    [ merged |-> deep_update(dflt, cfg, allow, _allow_unknown_subkeys),
      dflt_after |-> dflt ]

SetupErrors(dflt, cfg, allow) ==
    deep_update_errors(dflt, cfg, allow, _allow_unknown_subkeys)

FailInit(e, events, reg, cfg, dflt) ==
    /\ phase' = "failed"
    /\ outcome' = OutCfg("__init__", e, cfg, EmptyDict)
    /\ log' = events
    /\ registry' = reg
    /\ default_config' = dflt
    /\ UNCHANGED <<cls, config, global_vars, iteration, shape, le, opt,
                   inbox, remote, files, saved>>

\* Agent.__init__ -> Trainable.__init__ -> Agent._setup -> subclass _init
\* (the scheduler asks the class for its resources with the same config first)
Construct(cfg, env, has_logger, sh) ==
    /\ phase = "new"
    /\ \/ outcome.op = "none"
       \/ outcome.op = "default_resource_request" /\ outcome.arg = cfg
    /\ LET r == _register_if_needed(EnvOrConfig(env, cfg), registry)
           c == SetupConfig(cfg, r.id)
           allow == cls._allow_unknown_configs
           errs == SetupErrors(default_config, c, allow)
           m == SetupMerge(default_config, c, allow)
           setup == r.events \o <<Ev("logger_creator", 0, IF has_logger THEN 1 ELSE 0),
                                   Ev("_setup", 0, 0)>>
       IN  IF _validate_config(cfg) # "none"
               THEN FailInit(_validate_config(cfg), <<>>, registry, cfg, default_config)
           ELSE IF ~has_logger /\ ~cls.has_agent_name
               THEN FailInit("NotImplementedError", r.events, r.registry, cfg, default_config)
           ELSE IF ~cls.has_default_config
               THEN FailInit("NotImplementedError", setup, r.registry, cfg, default_config)
           ELSE IF errs # {}
               THEN \E e \in errs : FailInit(e, setup, r.registry, cfg, default_config)
           ELSE IF ~cls.has_init
               THEN FailInit("NotImplementedError", setup \o <<Ev("_init", 0, 0)>>,
                             r.registry, cfg, m.dflt_after)
           ELSE /\ phase' = "ready"
                /\ outcome' = OutCfg("__init__", "none", cfg, m.merged)
                /\ log' = setup \o <<Ev("_init", 0, 0)>>
                /\ registry' = r.registry
                /\ default_config' = m.dflt_after
                /\ config' = m.merged
                /\ global_vars' = [timestep |-> 0]
                /\ iteration' = 0
                /\ shape' = sh
                /\ le' = NewEvaluator
                /\ opt' = NewOptimizer
                /\ inbox' = [h \in Handles |-> <<>>]
                /\ remote' = [h \in Handles |-> NewRemote]
                /\ UNCHANGED <<cls, files, saved>>

\* Agent.default_resource_request(cls, config)
default_resource_request(cfg) ==
    /\ phase = "new"
    /\ outcome.op = "none"
    /\ LET cf == Update(default_config, cfg)
       IN  outcome' = OutCfg("default_resource_request",
                             IF ~cls.has_default_config THEN "TypeError"
                             ELSE _validate_config(cf),
                             cfg, EmptyDict)
    /\ log' = <<>>
    /\ UNCHANGED <<cls, default_config, registry, phase, config, global_vars,
                   iteration, shape, le, opt, inbox, remote, files, saved>>

\* merging the agent's merged config with itself, as _setup merges
MergeAgain ==
    /\ phase = "ready"
    /\ outcome.op = "__init__"
    /\ LET errs == SetupErrors(config, config, cls._allow_unknown_configs)
           m == SetupMerge(config, config, cls._allow_unknown_configs)
       IN  outcome' = OutCfg("merge_again",
                             IF errs # {} THEN "Exception" ELSE "none",
                             config, m.merged)
    /\ log' = <<>>
    /\ UNCHANGED <<cls, default_config, registry, phase, config, global_vars,
                   iteration, shape, le, opt, inbox, remote, files, saved>>

----------------------------------------------------------------------------
(* User configs *)

Piece(k, o) == IF o = Absent THEN EmptyDict ELSE (k :> o)

DeprecatedConfigs ==
    { Piece("gpu", a) @@ Piece("gpu_fraction", b) @@ Piece("use_gpu_for_workers", c) :
        a \in {Absent, S("1")}, b \in {Absent, S("0.5")}, c \in {Absent, S("True")} }

AllConfigs ==
    { dep @@ Piece("gamma", g) @@ Piece("model", m) @@ Piece("callbacks", cb)
          @@ Piece("foo", f) @@ Piece("env", e) :
        dep \in DeprecatedConfigs,
        g \in {Absent, S("0.9")},
        m \in {Absent, D([custom_options |-> S("x")]), PyNone},
        cb \in {Absent, D([on_train_result |-> S("cb")]), D([bogus |-> S("x")])},
        f \in {Absent, S("1")},
        e \in {Absent, S("CartPole-v0")} }

InitCommon ==
    /\ cls \in Classes
    /\ default_config = DeclaredDefault(cls)
    /\ registry = {}
    /\ phase = "new"
    /\ config = EmptyDict
    /\ global_vars = [timestep |-> 0]
    /\ iteration = 0
    /\ shape = NoShape
    /\ le = NewEvaluator
    /\ opt = NewOptimizer
    /\ inbox = [h \in Handles |-> <<>>]
    /\ remote = [h \in Handles |-> NewRemote]
    /\ files = <<>>
    /\ saved = <<>>
    /\ log = <<>>
    /\ outcome = Out("none", "none", <<>>)

\* construction and the class methods, over all user configs
NextConfig ==
    \/ \E cfg \in AllConfigs, env \in EnvArgs, has_logger \in BOOLEAN :
          Construct(cfg, env, has_logger, BasicShape)
    \/ \E cfg \in AllConfigs : default_resource_request(cfg)
    \/ MergeAgain

SpecConfig == InitCommon /\ [][NextConfig]_vars

----------------------------------------------------------------------------
(* The agent's objects *)

Get(d, k) == IF Has(d, k) THEN d[k] ELSE PyNone

\* self.remote_evaluators / optimizer.remote_evaluators: the handles 1..n
RemoteList(sh) == [i \in 1..sh.n |-> i]

\* an asynchronous call h.<call>.remote(x) waits in the handle's inbox
Msg(call, x) == [call |-> call, x |-> x]
Send(box, hs, m) ==
    [h \in Handles |-> IF \E i \in DOMAIN hs : hs[i] = h
                       THEN box[h] \o <<m>> ELSE box[h]]
Room(hs) == \A i \in DOMAIN hs : Len(inbox[hs[i]]) < MaxInbox

\* PolicyEvaluator.save() / restore(): weights and filter statistics
EvaluatorSave(e) == [weights |-> e.weights, filter_count |-> e.filter_count]
EvaluatorRestore(e, st) == [e EXCEPT !.weights = st.weights, !.filter_count = st.filter_count]
\* optimizer.save() / restore(): the step counters
OptimizerSave(o) == <<o.num_steps_trained, o.num_steps_sampled>>
OptimizerRestore(o, st) == [o EXCEPT !.num_steps_trained = st[1], !.num_steps_sampled = st[2]]

HasSave(kind) == kind \in {"policy", "plain_save"}
HasStop(kind) == kind \in {"policy", "plain_save"}

\* a remote evaluator takes the next call from its inbox
RemoteProcess(h) ==
    /\ phase \in {"ready", "stopped"}
    /\ inbox[h] # <<>>
    /\ LET m == Head(inbox[h])
       IN  remote' = [remote EXCEPT ![h] =
                IF ~@.alive THEN @
                ELSE IF m.call = "set_global_vars" THEN [@ EXCEPT !.timestep = m.x]
                ELSE IF m.call = "restore" THEN EvaluatorRestore(@, m.x)
                ELSE IF m.call = "__ray_terminate__" THEN [@ EXCEPT !.alive = FALSE]
                ELSE @]
    /\ inbox' = [inbox EXCEPT ![h] = Tail(@)]
    /\ UNCHANGED <<cls, default_config, registry, phase, config, global_vars,
                   iteration, shape, le, opt, files, saved, log, outcome>>

----------------------------------------------------------------------------
(* train *)

\* hasattr(self, "optimizer") and isinstance(self.optimizer, PolicyOptimizer)
SyncsGlobalVars(sh) == sh.optimizer = "policy"

\* the remote evaluators that get set_global_vars, with the first one left out
GlobalVarsTargets_skipfirst(sh) == SubSeq(RemoteList(sh), 2, sh.n)
\* for ev in self.optimizer.remote_evaluators
GlobalVarsTargets(sh) == RemoteList(sh)

PushCalls(sh, ts) ==
    IF SyncsGlobalVars(sh)
    THEN <<Ev("local_evaluator.set_global_vars", 0, ts)>>
         \o [i \in DOMAIN GlobalVarsTargets(sh) |->
                Ev("set_global_vars.remote", GlobalVarsTargets(sh)[i], ts)]
    ELSE <<>>

\* config.get("observation_filter", "NoFilter") != "NoFilter"
\*     and hasattr(self, "local_evaluator")
FilterOn(cfg) ==
    (IF Has(cfg, "observation_filter") THEN cfg["observation_filter"] ELSE S("NoFilter"))
        # S("NoFilter")
SyncsFilters(cfg, sh) == FilterOn(cfg) /\ sh.local_evaluator

SyncCalls(cfg, sh) ==
    IF SyncsFilters(cfg, sh)
    THEN <<Ev("FilterManager.synchronize", 0,
              IF Truthy(cfg["synchronize_filters"]) THEN 1 ELSE 0)>>
    ELSE <<>>

\* the callback invoked whether or not one is registered, before the result exists
CallbackCalls_always(cfg, result) == <<Ev("on_train_result", 0, result - 1)>>
\* if self.config["callbacks"].get("on_train_result"): call it with the result
CallbackCalls(cfg, result) ==
    IF Truthy(Get(cfg["callbacks"][2], "on_train_result"))
    THEN <<Ev("on_train_result", 0, result)>>
    ELSE <<>>

\* the calls of train with the training step issued first
TrainCalls_stepfirst(start, pushes, sync, step, cb) == start \o step \o pushes \o sync \o cb
\* the calls of train in statement order
TrainCalls(start, pushes, sync, step, cb) == start \o pushes \o sync \o step \o cb

\* Agent.train. The training step of the subclass yields new weights (named by
\* the iteration that produced them) and samples one more batch, which updates
\* the statistics of an observation filter other than NoFilter.
train ==
    /\ phase = "ready"
    /\ iteration < MaxIter
    /\ SyncsGlobalVars(shape) => Room(GlobalVarsTargets(shape))
    /\ LET ts == opt.num_steps_sampled
           start == <<Ev("train", 0, ts)>>
           pushes == PushCalls(shape, ts)
           sync == SyncCalls(config, shape)
           result == iteration + 1
           step == <<Ev("Trainable.train", 0, result)>>
           cb == CallbackCalls(config, result)
           box == IF SyncsGlobalVars(shape)
                  THEN Send(inbox, GlobalVarsTargets(shape), Msg("set_global_vars", ts))
                  ELSE inbox
           le1 == IF SyncsGlobalVars(shape) THEN [le EXCEPT !.timestep = ts] ELSE le
       IN  /\ global_vars' = IF SyncsGlobalVars(shape) THEN [timestep |-> ts] ELSE global_vars
           /\ inbox' = box
           /\ IF SyncsFilters(config, shape) /\ ~shape.remote_evaluators
              THEN \* self.remote_evaluators raises AttributeError
                   /\ le' = le1
                   /\ log' = start \o pushes
                   /\ outcome' = Out("train", "AttributeError", <<>>)
                   /\ UNCHANGED <<iteration, opt>>
              ELSE /\ le' = [le1 EXCEPT !.weights = result,
                                          !.filter_count =
                                              IF FilterOn(config) THEN @ + 1 ELSE @]
                   /\ opt' = IF shape.optimizer = "none" THEN opt
                             ELSE [opt EXCEPT !.num_steps_sampled = @ + 1,
                                              !.num_steps_trained = @ + 1]
                   /\ iteration' = result
                   /\ log' = TrainCalls(start, pushes, sync, step, cb)
                   /\ outcome' = Out("train", "none", <<result>>)
    /\ UNCHANGED <<cls, default_config, registry, phase, config, shape, remote,
                   files, saved>>

----------------------------------------------------------------------------
(* _stop *)

\* _stop with the optimizer stopped before the remote evaluators are terminated
StopCalls_optfirst(sh) ==
    (IF sh.optimizer # "none" /\ HasStop(sh.optimizer)
     THEN <<Ev("optimizer.stop", 0, 0)>> ELSE <<>>)
    \o (IF sh.remote_evaluators
        THEN [i \in DOMAIN RemoteList(sh) |-> Ev("__ray_terminate__.remote", RemoteList(sh)[i], 0)]
        ELSE <<>>)
\* the calls of _stop in statement order
StopCalls(sh) ==
    (IF sh.remote_evaluators
     THEN [i \in DOMAIN RemoteList(sh) |-> Ev("__ray_terminate__.remote", RemoteList(sh)[i], 0)]
     ELSE <<>>)
    \o (IF sh.optimizer # "none" /\ HasStop(sh.optimizer)
        THEN <<Ev("optimizer.stop", 0, 0)>> ELSE <<>>)

\* Agent._stop
_stop ==
    /\ phase = "ready"
    /\ phase' = "stopped"
    /\ log' = StopCalls(shape)
    /\ inbox' = IF shape.remote_evaluators
                THEN Send(inbox, RemoteList(shape), Msg("__ray_terminate__", 0))
                ELSE inbox
    /\ opt' = IF shape.optimizer # "none" /\ HasStop(shape.optimizer)
              THEN [opt EXCEPT !.stopped = @ + 1] ELSE opt
    /\ outcome' = Out("_stop",
                      IF shape.optimizer # "none" /\ ~HasStop(shape.optimizer)
                      THEN "AttributeError" ELSE "none", <<>>)
    /\ UNCHANGED <<cls, default_config, registry, config, global_vars, iteration,
                   shape, le, remote, files, saved>>

----------------------------------------------------------------------------
(* _save and _restore *)

__getstate__(sh, e, o) ==
    (IF sh.local_evaluator THEN ("evaluator" :> EvaluatorSave(e)) ELSE EmptyDict)
    @@ (IF sh.optimizer # "none" /\ HasSave(sh.optimizer)
        THEN ("optimizer" :> OptimizerSave(o)) ELSE EmptyDict)

\* Agent._save: the checkpoint is named by the iteration number
_save ==
    /\ phase = "ready"
    /\ LET checkpoint_path == iteration
       IN  /\ files' = (checkpoint_path :> __getstate__(shape, le, opt)) @@ files
           /\ saved' = (checkpoint_path :> [evaluator |-> EvaluatorSave(le),
                                            optimizer |-> OptimizerSave(opt)]) @@ saved
           /\ outcome' = Out("_save", "none", <<checkpoint_path>>)
    /\ log' = <<>>
    /\ UNCHANGED <<cls, default_config, registry, phase, config, global_vars,
                   iteration, shape, le, opt, inbox, remote>>

\* __setstate__ that forgets the optimizer
SetStateOptimizer_skip(state, o) == o
\* if "optimizer" in state: self.optimizer.restore(state["optimizer"])
SetStateOptimizer(state, o) ==
    IF Has(state, "optimizer") THEN OptimizerRestore(o, state["optimizer"]) ELSE o

\* the remote evaluators that get the restore call, with the first one left out
RestoreTargets_skipfirst(sh) == SubSeq(RemoteList(sh), 2, sh.n)
\* for r in self.remote_evaluators
RestoreTargets(sh) == RemoteList(sh)

\* remote_state = ray.put(state["evaluator"]): the object every remote gets
remote_state(state) == state["evaluator"]

\* Agent._restore -> Agent.__setstate__
_restore(checkpoint_path) ==
    /\ phase = "ready"
    /\ checkpoint_path \in DOMAIN files
    /\ LET state == files[checkpoint_path]
           fails == Has(state, "evaluator") /\ ~shape.remote_evaluators
       IN  /\ Has(state, "evaluator") /\ shape.remote_evaluators => Room(RestoreTargets(shape))
           /\ le' = IF Has(state, "evaluator")
                    THEN EvaluatorRestore(le, state["evaluator"]) ELSE le
           /\ inbox' = IF Has(state, "evaluator") /\ shape.remote_evaluators
                       THEN Send(inbox, RestoreTargets(shape),
                                 Msg("restore", remote_state(state)))
                       ELSE inbox
           /\ log' = <<Ev("_restore", 0, checkpoint_path)>> \o
                     IF Has(state, "evaluator")
                     THEN <<Ev("local_evaluator.restore", 0, state["evaluator"])>>
                          \o (IF shape.remote_evaluators
                              THEN [i \in DOMAIN RestoreTargets(shape) |->
                                       Ev("restore.remote", RestoreTargets(shape)[i],
                                          remote_state(state))]
                              ELSE <<>>)
                     ELSE <<>>
           /\ opt' = IF fails THEN opt ELSE SetStateOptimizer(state, opt)
           /\ outcome' = Out("_restore", IF fails THEN "AttributeError" ELSE "none", <<>>)
    /\ UNCHANGED <<cls, default_config, registry, phase, config, global_vars,
                   iteration, shape, remote, files, saved>>

----------------------------------------------------------------------------
(* compute_action *)

StateArgs == {"None", "[]", "[h]"}
Observations == {0, 1}
\* the state argument as logged: 0 for None, 1 for the empty list, 2 for [h]
StateArgNo(state) == IF state = "None" THEN 0 ELSE IF state = "[]" THEN 1 ELSE 2

\* the observation filter: the filtered observation, and the statistics after
FilterApply(e, x, update) ==
    [obs |-> x, filter_count |-> IF update THEN e.filter_count + 1 ELSE e.filter_count]

\* policy.compute_single_action(obs, state): (action, rnn state, logits)
compute_single_action(e, obs, state) ==
    << obs + e.weights, IF state = "[h]" THEN 1 ELSE 0, e.weights >>

\* Agent.compute_action
compute_action(observation, state) ==
    /\ phase = "ready"
    /\ IF ~shape.local_evaluator
       THEN /\ outcome' = Out("compute_action", "AttributeError", <<>>)
            /\ log' = <<Ev("compute_action", StateArgNo(state), le.filter_count)>>
            /\ le' = le
       ELSE LET st == IF state = "None" THEN "[]" ELSE state
                f == FilterApply(le, observation, FALSE)
                res == compute_single_action(le, f.obs, st)
            IN  /\ le' = [le EXCEPT !.filter_count = f.filter_count]
                /\ log' = <<Ev("compute_action", StateArgNo(state), le.filter_count)>>
                /\ outcome' = Out("compute_action", "none",
                                  IF st # "[]" THEN res ELSE <<res[1]>>)
    /\ UNCHANGED <<cls, default_config, registry, phase, config, global_vars,
                   iteration, shape, opt, inbox, remote, files, saved>>

----------------------------------------------------------------------------
(* The lifecycle specification *)

\* a concrete agent class: every hook overridden
ConcreteClasses ==
    { c \in Classes : c.has_init /\ c.has_agent_name /\ c.has_default_config
                      /\ ~c._allow_unknown_configs /\ c.extra = [lr |-> S("0.01")] }

UserConfigs ==
    { EmptyDict,
      [callbacks |-> D([on_train_result |-> S("cb")])],
      [observation_filter |-> S("MeanStdFilter")],
      [observation_filter |-> S("MeanStdFilter"), synchronize_filters |-> S("False"),
       callbacks |-> D([on_train_result |-> S("cb")])],
      [gpu |-> S("1")],
      [foo |-> S("1")] }

Init == InitCommon /\ cls \in ConcreteClasses

\* construction, training, compute_action and stop, over every agent shape and
\* user config
Next ==
    \/ \E cfg \in UserConfigs, has_logger \in BOOLEAN, sh \in Shapes :
          Construct(cfg, NoEnv, has_logger, sh)
    \/ train
    \/ _stop
    \/ \E x \in Observations, st \in StateArgs : compute_action(x, st)
    \/ \E h \in Handles : RemoteProcess(h)

Spec == Init /\ [][Next]_vars

\* training, checkpoints and the remote evaluators working off their inboxes,
\* over every agent shape, with an observation filter
NextCheckpoint ==
    \/ \E sh \in Shapes :
          Construct([observation_filter |-> S("MeanStdFilter")], NoEnv, TRUE, sh)
    \/ train
    \/ _save
    \/ \E p \in 0..MaxIter : _restore(p)
    \/ \E h \in Handles : RemoteProcess(h)

SpecCheckpoint == Init /\ [][NextCheckpoint]_vars

----------------------------------------------------------------------------
(* Claims about validation, merge and construction (SpecConfig) *)

HasDeprecatedKey(cfg) == DOMAIN cfg \cap DeprecatedKeys # {}
MissingHook == ~cls.has_init \/ ~cls.has_agent_name \/ ~cls.has_default_config
MergeErrors == {"UnknownConfig", "AttributeError"}

\* C4: a config with a deprecated top-level key, whatever else it holds, makes
\* the constructor raise ValueError before any env is registered or _setup is
\* run, and makes default_resource_request (on a class that declares its
\* _default_config mapping) raise ValueError.
C4_DeprecatedKeyRaises ==
    HasDeprecatedKey(outcome.arg) =>
        /\ outcome.op = "__init__" =>
              /\ outcome.exc = "ValueError"
              /\ phase = "failed"
              /\ log = <<>>
              /\ registry = {}
        /\ (outcome.op = "default_resource_request" /\ cls.has_default_config) =>
              outcome.exc = "ValueError"

C4_Witness ==
    /\ outcome.op = "__init__"
    /\ Has(outcome.arg, "use_gpu_for_workers")
    /\ ~Has(outcome.arg, "gpu")
    /\ Has(outcome.arg, "foo")
    /\ outcome.exc = "ValueError"

\* the literal list of exempted sub-mappings
ExemptedSubMappings == {"tf_session_args", "env_config", "model", "optimizer", "multiagent"}

MergeReached ==
    /\ outcome.op = "__init__"
    /\ cls.has_default_config
    /\ \E i \in DOMAIN log : log[i].ev = "_setup"

TopUnknown(cfg) == DOMAIN cfg \ DOMAIN DeclaredDefault(cls)
\* sub-mappings of the defaults that the user config overrides with a mapping
SubMappings(cfg) ==
    { k \in DOMAIN cfg \cap DOMAIN DeclaredDefault(cls) :
         IsDict(DeclaredDefault(cls)[k]) /\ IsDict(cfg[k]) }
NestedUnknown(cfg, k) == DOMAIN cfg[k][2] \ DOMAIN DeclaredDefault(cls)[k][2]

\* C5: in _setup's merge an unknown top-level key makes the merge fail unless
\* _allow_unknown_configs is set (then it is merged in); an unknown key nested
\* directly in an exempted sub-mapping never makes the merge fail and appears
\* in the merged config.
C5_UnknownKeys ==
    MergeReached =>
        LET cfg == outcome.arg
            allow == cls._allow_unknown_configs
        IN  /\ (TopUnknown(cfg) # {} /\ ~allow) =>
                  (phase = "failed" /\ outcome.exc \in MergeErrors)
            /\ (TopUnknown(cfg) # {} /\ allow /\ phase = "ready") =>
                  \A k \in TopUnknown(cfg) : Has(config, k) /\ config[k] = cfg[k]
            /\ outcome.exc = "UnknownConfig" =>
                  /\ ~allow
                  /\ \/ TopUnknown(cfg) # {}
                     \/ \E k \in SubMappings(cfg) \ ExemptedSubMappings :
                           NestedUnknown(cfg, k) # {}
            /\ phase = "ready" =>
                  \A k \in SubMappings(cfg) \cap ExemptedSubMappings :
                     \A sk \in DOMAIN cfg[k][2] :
                        Has(config[k][2], sk) /\ config[k][2][sk] = cfg[k][2][sk]

C5_Witness ==
    /\ MergeReached
    /\ phase = "ready"
    /\ ~cls._allow_unknown_configs
    /\ Has(outcome.arg, "model")
    /\ IsDict(outcome.arg["model"])
    /\ NestedUnknown(outcome.arg, "model") # {}
    /\ Has(config["model"][2], "custom_options")

\* C6: merging the merged config M with itself (M as defaults and as override)
\* raises nothing and yields M again, and the merge done at construction leaves
\* the class default config as the class declared it.
C6_MergeIdempotent ==
    /\ outcome.op = "merge_again" =>
          (outcome.exc = "none" /\ outcome.val = outcome.arg /\ outcome.val = config)
    /\ outcome.op \in {"__init__", "merge_again"} =>
          default_config = DeclaredDefault(cls)

C6_Witness ==
    /\ outcome.op = "merge_again"
    /\ outcome.val = config
    /\ Has(config, "foo")
    /\ Has(config["model"][2], "custom_options")
    /\ config["gamma"] = S("0.9")

ConfigAccepted(cfg) ==
    /\ _validate_config(cfg) = "none"
    /\ cls.has_default_config =>
          SetupErrors(DeclaredDefault(cls), cfg, cls._allow_unknown_configs) = {}

\* C7: constructing an agent of a class that leaves _init, _agent_name or
\* _default_config without an override fails with NotImplementedError, whether
\* or not the caller supplies a logger_creator (stated for the configs that
\* validation and the merge accept, so that no earlier error is in the way).
C7_MissingOverrideFatal ==
    (outcome.op = "__init__" /\ MissingHook /\ ConfigAccepted(outcome.arg)) =>
        (outcome.exc = "NotImplementedError" /\ phase # "ready")

----------------------------------------------------------------------------
(* Claims about the lifecycle (Spec) *)

Where(e) == { i \in DOMAIN log : log[i].ev = e }
SyncEvents ==
    {"local_evaluator.set_global_vars", "set_global_vars.remote", "FilterManager.synchronize"}

\* C1: within one call of train every set_global_vars push (local and remote)
\* and the filter synchronization are issued before the training step
\* (Trainable.train), and none is issued after it.
C1_SyncBeforeTrainingStep ==
    outcome.op = "train" =>
        \A i \in DOMAIN log, j \in Where("Trainable.train") :
            log[i].ev \in SyncEvents => i < j

C1_Witness ==
    /\ outcome.op = "train"
    /\ outcome.exc = "none"
    /\ Where("set_global_vars.remote") # {}
    /\ Where("FilterManager.synchronize") # {}
    /\ Where("Trainable.train") # {}

\* C2: with a policy optimizer, every call of train sets global_vars.timestep
\* to num_steps_sampled as read at the start of the call and issues
\* set_global_vars with that value to the local evaluator and exactly once to
\* each of the optimizer's remote evaluators, whatever their number.
C2_GlobalVarsPushed ==
    (outcome.op = "train" /\ shape.optimizer = "policy") =>
        LET ts == log[1].x
        IN  /\ log[1].ev = "train"
            /\ global_vars.timestep = ts
            /\ le.timestep = ts
            /\ \E i \in Where("local_evaluator.set_global_vars") : log[i].x = ts
            /\ \A h \in 1..shape.n :
                  Cardinality({ i \in Where("set_global_vars.remote") :
                                   log[i].h = h /\ log[i].x = ts }) = 1
            /\ outcome.exc = "none" => opt.num_steps_sampled > ts

C2_Witness ==
    /\ outcome.op = "train"
    /\ shape.optimizer = "policy"
    /\ shape.n = MaxRemote
    /\ log[1].x > 0
    /\ Cardinality(Where("set_global_vars.remote")) = MaxRemote

RestoredPath == log[1].x

\* C3 as stated: after _restore of a saved checkpoint the local evaluator
\* state and the optimizer state equal the states they had at the _save.
C3_RoundTripAsStated ==
    (outcome.op = "_restore" /\ outcome.exc = "none") =>
        /\ shape.local_evaluator =>
              EvaluatorSave(le) = saved[RestoredPath].evaluator
        /\ shape.optimizer # "none" =>
              OptimizerSave(opt) = saved[RestoredPath].optimizer

\* C3 (amended): after _restore of a saved checkpoint, whatever train calls
\* came in between, the local evaluator state equals its state at the _save,
\* and so does the optimizer state when the optimizer has a save method.
C3_RoundTrip ==
    (outcome.op = "_restore" /\ outcome.exc = "none") =>
        /\ shape.local_evaluator =>
              EvaluatorSave(le) = saved[RestoredPath].evaluator
        /\ (shape.optimizer # "none" /\ HasSave(shape.optimizer)) =>
              OptimizerSave(opt) = saved[RestoredPath].optimizer

C3_Witness ==
    /\ outcome.op = "_restore"
    /\ outcome.exc = "none"
    /\ shape.local_evaluator
    /\ shape.optimizer = "policy"
    /\ RestoredPath = 0
    /\ iteration = MaxIter
    /\ opt.num_steps_sampled = 0

\* C8: a _stop that returns has sent exactly one terminate request to each
\* handle of remote_evaluators and then called optimizer.stop exactly once;
\* without a remote_evaluators or an optimizer attribute that step is skipped
\* and raises nothing.
C8_StopOrder ==
    outcome.op = "_stop" =>
        /\ (outcome.exc = "none" /\ shape.remote_evaluators) =>
              \A h \in 1..shape.n :
                 Cardinality({ i \in Where("__ray_terminate__.remote") : log[i].h = h }) = 1
        /\ ~shape.remote_evaluators => Where("__ray_terminate__.remote") = {}
        /\ (outcome.exc = "none" /\ shape.optimizer # "none") =>
              /\ Cardinality(Where("optimizer.stop")) = 1
              /\ opt.stopped = 1
        /\ shape.optimizer = "none" =>
              (Where("optimizer.stop") = {} /\ opt.stopped = 0 /\ outcome.exc = "none")
        /\ \A i \in Where("__ray_terminate__.remote"), j \in Where("optimizer.stop") : i < j

C8_Witness ==
    /\ outcome.op = "_stop"
    /\ outcome.exc = "none"
    /\ shape.remote_evaluators
    /\ shape.n = MaxRemote
    /\ Cardinality(Where("__ray_terminate__.remote")) = MaxRemote
    /\ Where("optimizer.stop") # {}

CallbackRegistered == config["callbacks"][2]["on_train_result"] # PyNone

\* C9: in a call of train that returns, a registered on_train_result callback
\* is invoked exactly once, after the training step, with the result that
\* train returns; with none registered none is invoked; in both cases train
\* returns the result of the training step.
C9_CallbackAfterStep ==
    (outcome.op = "train" /\ outcome.exc = "none") =>
        /\ Cardinality(Where("Trainable.train")) = 1
        /\ \A j \in Where("Trainable.train") : outcome.ret = <<log[j].x>>
        /\ CallbackRegistered =>
              /\ Cardinality(Where("on_train_result")) = 1
              /\ \A i \in Where("on_train_result") :
                    /\ log[i].x = outcome.ret[1]
                    /\ \A j \in Where("Trainable.train") : j < i
        /\ ~CallbackRegistered => Where("on_train_result") = {}

C9_Witness ==
    /\ outcome.op = "train"
    /\ outcome.exc = "none"
    /\ CallbackRegistered
    /\ Where("on_train_result") # {}
    /\ iteration = MaxIter

\* C10: compute_action returns the action alone when state is None and the
\* whole (action, rnn state, logits) result for every state that is not None,
\* the empty list included; the filter statistics are not updated.
C10_ComputeActionResult ==
    (outcome.op = "compute_action" /\ outcome.exc = "none") =>
        /\ log[1].h = 0 => Len(outcome.ret) = 1
        /\ log[1].h # 0 => Len(outcome.ret) = 3
        /\ le.filter_count = log[1].x

----------------------------------------------------------------------------
(* Claims about restoring the evaluators (SpecCheckpoint) *)

\* the remote evaluators of the agent: the handles in self.remote_evaluators
AgentRemotes == IF shape.remote_evaluators THEN 1..shape.n ELSE {}
RestoreEvents == {"local_evaluator.restore", "restore.remote"}
Quiet(hs) == \A h \in hs : inbox[h] = <<>>

\* what the latest _restore left behind, given the checkpoint it read
RestoreIssued ==
    outcome.op = "_restore" =>
        LET state == files[RestoredPath]
        IN  /\ Has(state, "evaluator") =>
                  /\ EvaluatorSave(le) = state["evaluator"]
                  /\ Cardinality(Where("local_evaluator.restore")) = 1
                  /\ \A i \in Where("local_evaluator.restore") :
                        log[i].x = state["evaluator"]
                  /\ \A h \in AgentRemotes :
                        Cardinality({ i \in Where("restore.remote") :
                                         log[i].h = h /\ log[i].x = state["evaluator"] }) = 1
                  /\ Cardinality(Where("restore.remote")) = Cardinality(AgentRemotes)
                  /\ Quiet(AgentRemotes) =>
                        \A h \in AgentRemotes :
                           remote[h].alive => EvaluatorSave(remote[h]) = EvaluatorSave(le)
            /\ ~Has(state, "evaluator") =>
                  \A i \in DOMAIN log : log[i].ev \notin RestoreEvents

\* what a _restore step leaves alone, given the checkpoint it reads
RestoreKeeps ==
    \A p \in 0..MaxIter :
        _restore(p) =>
            /\ ~Has(files[p], "evaluator") => (le' = le /\ inbox' = inbox)
            /\ ~Has(files[p], "optimizer") => opt' = opt

====
